---- MODULE Spec2Model ----
(***************************************************************************)
(* Model of apps/backend/src/main.ts: the two completion-backed routes     *)
(* (GET /api/book-suggestions, POST /api/recommend-books) and the line     *)
(* parser parseTextRecommendations.                                        *)
(*                                                                         *)
(* A string is a sequence of tokens.  A token is a run of characters that  *)
(* the code never looks inside: a digit, the period, a blank, a newline,   *)
(* a label such as "title:", a word, or a piece of JSON punctuation.       *)
(***************************************************************************)
EXTENDS Integers, Sequences, FiniteSets, TLC

VARIABLES
  pc, route, books, query, calls, completion, parsed, res,  \* one HTTP request
  ppc, text, currentBook, recommendations, result,        \* one run of parseTextRecommendations
  lpc, line, out                                            \* one line through the loop body

httpVars == <<pc, route, books, query, calls, completion, parsed, res>>
parserVars == <<ppc, text, currentBook, recommendations, result>>
lineVars == <<lpc, line, out>>
vars == <<httpVars, parserVars, lineVars>>

(* ------------------------------ bounds -------------------------------- *)
MaxRecs == 6
MaxTextLines == 6
MaxSuggestLines == 9
MaxLines == 4
MaxLineLen == 3
MaxQueryLen == 3
MaxBodyLen == 11

(* -------------------------- program constants ------------------------- *)
MinQueryLength == 2
MaxSuggestions == 8
MaxBooks == 10
MaxRecommendations == 5

(* ------------------------------ strings ------------------------------- *)
NL == "\n"
SP == " "
Absent == <<"undefined">>

MinOf(S) == CHOOSE x \in S : \A y \in S : x <= y
MaxOf(S) == CHOOSE x \in S : \A y \in S : x >= y

Word(i) == "w" \o ToString(i)

IsDigit(t) == t \in {"1", "5"}
IsSpace(t) == t \in {SP, NL}
Labels == {"title:", "author:", "reason:", "why:", "genre:"}

\* String.prototype.toLowerCase, token by token
toLowerCase(t) ==
  CASE t = "Title:" -> "title:"
    [] t = "Author:" -> "author:"
    [] OTHER -> t

\* the last character of the token is a regex word character (\w)
EndsInWordChar(t) ==
  /\ ~IsSpace(t)
  /\ toLowerCase(t) \notin Labels
  /\ t \notin {".", "-", ",", "{", "}", "[", "]", "\"recommendations\":", "\"note\":"}

\* String.prototype.trim
trim(s) ==
  LET keep == {i \in 1..Len(s) : ~IsSpace(s[i])}
  IN IF keep = {} THEN <<>> ELSE SubSeq(s, MinOf(keep), MaxOf(keep))

\* String.prototype.split('\n')
split(s) ==
  LET nl == {i \in 1..Len(s) : s[i] = NL}
      starts == {1} \cup {i + 1 : i \in nl}
      nth(k) == CHOOSE b \in starts : Cardinality({c \in starts : c < b}) = k - 1
      stop(b) == MinOf({i \in nl : i >= b} \cup {Len(s) + 1})
  IN [k \in 1..Cardinality(starts) |-> SubSeq(s, nth(k), stop(nth(k)) - 1)]

\* Array.prototype.slice(0, n)
\* slip: an off-by-one end index
sliceMutC1(s, n) == SubSeq(s, 1, IF Len(s) < n + 1 THEN Len(s) ELSE n + 1)
slice(s, n) == SubSeq(s, 1, IF Len(s) < n THEN Len(s) ELSE n)

\* lowerLine.includes(label)
includes(ln, labels) == \E i \in 1..Len(ln) : toLowerCase(ln[i]) \in labels

\* length of the match of /^\d+\./ at the start of the line, 0 when none
MarkerLen(ln) ==
  LET d == MinOf({i \in 1..(Len(ln) + 1) : i > Len(ln) \/ ~IsDigit(ln[i])}) - 1
  IN IF d >= 1 /\ d + 1 <= Len(ln) /\ ln[d + 1] = "." THEN d + 1 ELSE 0

\* positions where /label/i matches; bnd is the regex's leading \b
LabelPos(ln, labels, bnd) ==
  {i \in 1..Len(ln) :
     /\ toLowerCase(ln[i]) \in labels
     /\ bnd => (i = 1 \/ ~EndsInWordChar(ln[i - 1]))}

\* the line without the label at position i and the \s* run that follows it
CutLabel(ln, i) ==
  LET j == MinOf({k \in (i + 1)..(Len(ln) + 1) : k > Len(ln) \/ ~IsSpace(ln[k])})
  IN SubSeq(ln, 1, i - 1) \o SubSeq(ln, j, Len(ln))

\* line.replace(/label:\s*/i, '') : the first match only (no g flag)
replaceLabel(ln, labels, bnd) ==
  LET pos == LabelPos(ln, labels, bnd)
  IN IF pos = {} THEN ln ELSE CutLabel(ln, MinOf(pos))

\* line.replace(/^\d+\.|\btitle:\s*/i, '') : the first match only
replaceTitle(ln) ==
  IF MarkerLen(ln) > 0
    THEN SubSeq(ln, MarkerLen(ln) + 1, Len(ln))
    ELSE replaceLabel(ln, {"title:"}, TRUE)

(* ---------------------- parseTextRecommendations ---------------------- *)
EmptyBook == [title |-> Absent, author |-> Absent, reason |-> Absent, genre |-> Absent]

\* JavaScript truthiness of a possibly absent string
Truthy(v) == v # Absent /\ v # <<>>

IsTitleStart(ln) == includes(ln, {"title:"}) \/ MarkerLen(ln) > 0

\* the flush test `if (currentBook.title)` of the loop body
\* slips: testing for presence instead of truthiness; never flushing
FlushMutC3(book) == book.title # Absent
FlushMutC9(book) == FALSE
Flush(book) == Truthy(book.title)

\* one iteration of the for loop: st = [book, recs]
ParseLine(st, ln) ==
  IF IsTitleStart(ln)
    THEN LET pushed == IF Flush(st.book) THEN Append(st.recs, st.book) ELSE st.recs
             fresh == IF Flush(st.book) THEN EmptyBook ELSE st.book
         IN [book |-> [fresh EXCEPT !.title = trim(replaceTitle(ln))], recs |-> pushed]
  ELSE IF includes(ln, {"author:"})
    THEN [st EXCEPT !.book.author = trim(replaceLabel(ln, {"author:"}, FALSE))]
  ELSE IF includes(ln, {"reason:", "why:"})
    THEN [st EXCEPT !.book.reason = trim(replaceLabel(ln, {"reason:", "why:"}, FALSE))]
  ELSE IF includes(ln, {"genre:"})
    THEN [st EXCEPT !.book.genre = trim(replaceLabel(ln, {"genre:"}, FALSE))]
  ELSE st

\* the push after the loop
FinalPush(st) == IF Truthy(st.book.title) THEN Append(st.recs, st.book) ELSE st.recs

\* text.split('\n').filter(line => line.trim())
NonBlankLines(s) == SelectSeq(split(s), LAMBDA ln : trim(ln) # <<>>)

RECURSIVE FoldLines(_, _, _)
FoldLines(st, lns, i) ==
  IF i > Len(lns) THEN st ELSE FoldLines(ParseLine(st, lns[i]), lns, i + 1)

parseTextRecommendations(s) ==
  FinalPush(FoldLines([book |-> EmptyBook, recs |-> <<>>], NonBlankLines(s), 1))

(* ------------------------------ JSON.parse ---------------------------- *)
\* JSON texts here are built from the tokens { } [ ] , null, digits, the
\* period, two member keys, and {A} {B}, each standing for one object
\* literal of the shape {"title": ..., "author": ..., ...}.
Elems == {"{A}", "{B}", "null"}
Keys == {"\"recommendations\":", "\"note\":"}
NoValue == [kind |-> "none", items |-> <<>>]

IsNumber(t) ==
  LET dots == {i \in 1..Len(t) : t[i] = "."}
  IN /\ Len(t) >= 1
     /\ \A i \in 1..Len(t) : IsDigit(t[i]) \/ t[i] = "."
     /\ \/ dots = {}
        \/ \E d \in 2..(Len(t) - 1) : dots = {d}

IsArrayText(t) ==
  /\ Len(t) >= 2 /\ t[1] = "[" /\ t[Len(t)] = "]"
  /\ \/ Len(t) = 2
     \/ /\ Len(t) % 2 = 1
        /\ \A i \in 2..(Len(t) - 1) : IF i % 2 = 0 THEN t[i] \in Elems ELSE t[i] = ","

ArrayItems(t) == [k \in 1..((Len(t) - 1) \div 2) |-> t[2 * k]]

\* a value that is not an object: null, a number or an array
PlainValue(t) ==
  IF t = <<"null">> THEN [kind |-> "null", items |-> <<>>]
  ELSE IF IsNumber(t) THEN [kind |-> "number", items |-> <<>>]
  ELSE IF IsArrayText(t) THEN [kind |-> "array", items |-> ArrayItems(t)]
  ELSE NoValue

\* JSON.parse(text): ok = FALSE stands for the SyntaxError it throws
JSONparse(s) ==
  LET t == SelectSeq(s, LAMBDA x : ~IsSpace(x))
      fail == [ok |-> FALSE, kind |-> "none", items |-> <<>>, key |-> "", member |-> NoValue]
  IN IF PlainValue(t).kind # "none"
       THEN [ok |-> TRUE, kind |-> PlainValue(t).kind, items |-> PlainValue(t).items,
             key |-> "", member |-> NoValue]
     ELSE IF t = <<"{", "}">>
       THEN [ok |-> TRUE, kind |-> "object", items |-> <<>>, key |-> "", member |-> NoValue]
     ELSE IF /\ Len(t) >= 4 /\ t[1] = "{" /\ t[Len(t)] = "}" /\ t[2] \in Keys
             /\ PlainValue(SubSeq(t, 3, Len(t) - 1)).kind # "none"
       THEN [ok |-> TRUE, kind |-> "object", items |-> <<>>, key |-> t[2],
             member |-> PlainValue(SubSeq(t, 3, Len(t) - 1))]
     ELSE fail

(* ------------------- POST /api/recommend-books: parse ----------------- *)
\* lines 168-185: the try around JSON.parse and its catch
\* slip: an unrecognised decoded shape yields no records instead of the text parse
parseStepMutC8(raw) ==
  LET d == JSONparse(raw)
  IN IF d.ok /\ d.kind = "object" /\ d.key = "\"recommendations\":" /\ d.member.kind = "array"
       THEN d.member.items
     ELSE IF d.ok /\ d.kind = "array" THEN d.items
     ELSE IF d.ok THEN <<>>
     ELSE parseTextRecommendations(raw)
parseStep(raw) ==
  LET d == JSONparse(raw)
  IN IF ~d.ok THEN parseTextRecommendations(raw)
     ELSE IF d.kind = "null" THEN parseTextRecommendations(raw)
     ELSE IF d.kind = "object" /\ d.key = "\"recommendations\":" /\ d.member.kind = "array"
       THEN d.member.items
     ELSE IF d.kind = "array" THEN d.items
     ELSE parseTextRecommendations(raw)

(* ----------------------------- the inputs ----------------------------- *)
\* the line of that shape at position i of the text: its word names the position
Instantiate(shape, i) ==
  [k \in 1..Len(shape) |-> IF shape[k] = "W" THEN Word(i) ELSE shape[k]]

RECURSIVE JoinWith(_, _)
JoinWith(parts, sep) ==
  IF Len(parts) = 0 THEN <<>>
  ELSE IF Len(parts) = 1 THEN parts[1]
  ELSE parts[1] \o sep \o JoinWith(Tail(parts), sep)

\* the texts of at most n lines over the given shapes
TextsOf(shapes, n) ==
  UNION { { JoinWith([i \in 1..m |-> Instantiate(f[i], i)], <<NL>>) : f \in [1..m -> shapes] }
          : m \in 0..n }

ItemLists == UNION { [1..n -> {"{A}", "{B}"}] : n \in 0..MaxRecs }
ArrayText(items, sep) ==
  <<"[">> \o JoinWith([k \in 1..Len(items) |-> <<items[k]>>], sep) \o <<"]">>

JsonTexts ==
  UNION { { ArrayText(it, <<",">>),
            <<"{", "\"recommendations\":">> \o ArrayText(it, <<",">>) \o <<"}">>,
            <<"{", NL, "\"recommendations\":", SP>> \o ArrayText(it, <<",", NL>>) \o <<NL, "}">>,
            <<"{", "\"note\":">> \o ArrayText(it, <<",">>) \o <<"}">>,
            <<"{", "\"recommendations\":", "[">> \o JoinWith([k \in 1..Len(it) |-> <<it[k]>>], <<",">>) }
          : it \in ItemLists }
  \cup { <<"null">>, <<"5">>, <<"1", ".", "5">>, <<"1", ".">>, <<"{", "}">>,
         <<"{", "\"recommendations\":", "null", "}">>,
         <<"{", "\"recommendations\":", NL, "1", ".", "5", "}">>,
         <<"[", NL, "1", ".", SP, "w2", NL, "]">> }

RecommendTexts ==
  JsonTexts \cup TextsOf({ <<"1", ".", SP, "W">>, <<"author:", "W">>, <<"W">> }, MaxTextLines)

\* one title per line, either bare or padded with blanks, and blank lines
SuggestTexts ==
  TextsOf({ <<"W">>, <<SP>> }, MaxSuggestLines)
    \cup TextsOf({ <<SP, "W", SP>>, <<SP>> }, MaxSuggestLines)
    \cup TextsOf({ <<"W">>, <<SP, "W">>, <<"W", SP, "W">>, <<SP>>, <<>> }, 3)

TextContent(t) == [null |-> FALSE, text |-> t]
NullContent == [null |-> TRUE, text |-> <<>>]
\* what the completion service resolves with: choices, each a message content
ChoicesOf(texts) ==
  { <<>>, <<NullContent>> } \cup { <<TextContent(t)>> : t \in texts }

BookBodies ==
  { [type |-> "undefined", items |-> <<>>], [type |-> "null", items |-> <<>>],
    [type |-> "string", items |-> <<>>], [type |-> "string", items |-> <<"Dune">>],
    [type |-> "object", items |-> <<>>] }
  \cup { [type |-> "array", items |-> [i \in 1..n |-> "b" \o ToString(i)]] : n \in 0..MaxBodyLen }

Queries ==
  { [defined |-> FALSE, chars |-> <<>>] }
  \cup { [defined |-> TRUE, chars |-> [i \in 1..n |-> "h"]] : n \in 0..MaxQueryLen }

(* ------------------------------ the routes ---------------------------- *)
NoResponse == [status |-> 0, keys |-> {}, error |-> "", inputBooks |-> <<>>,
               recommendations |-> <<>>, list |-> <<>>]
\* slip: an error answer that also carries a recommendations key
ErrorResponseMutC7(code, msg) ==
  [NoResponse EXCEPT !.status = code, !.keys = {"error", "recommendations"}, !.error = msg]
ErrorResponse(code, msg) == [NoResponse EXCEPT !.status = code, !.keys = {"error"}, !.error = msg]

\* !books || !Array.isArray(books) || books.length === 0   (line 116)
\* slip: the empty array is let through
RejectedEmptyMutC2(b) == b.type # "array"
RejectedEmpty(b) ==
  \/ b.type \in {"undefined", "null"}
  \/ b.type = "string" /\ b.items = <<>>
  \/ b.type # "array"
  \/ Len(b.items) = 0
\* books.length > 10   (line 122)
RejectedLong(b) == Len(b.items) > MaxBooks

\* (req.query.q as string) || ''
QueryString(q) == IF q.defined /\ q.chars # <<>> THEN q.chars ELSE <<>>
\* slip: a one-character query is let through
ShortQueryMutC5(q) == Len(QueryString(q)) < MinQueryLength - 1
ShortQuery(q) == Len(QueryString(q)) < MinQueryLength

\* one more call of openai.chat.completions.create
\* slip: the call is issued twice
IssueCallMutC4(n) == n + 2
IssueCall(n) == n + 1

\* POST /api/recommend-books up to the await (lines 112-162)
RecommendRequest ==
  /\ pc = "idle"
  /\ \E b \in BookBodies :
       /\ books' = b
       /\ IF RejectedEmpty(b)
            THEN /\ res' = ErrorResponse(400, "Please provide at least one book in the books array")
                 /\ pc' = "done" /\ calls' = 0
          ELSE IF RejectedLong(b)
            THEN /\ res' = ErrorResponse(400, "Please provide no more than 10 books for better recommendations")
                 /\ pc' = "done" /\ calls' = 0
          ELSE /\ res' = NoResponse
               /\ pc' = "awaiting" /\ calls' = IssueCall(0)
  /\ route' = "recommend"
  /\ query' = [defined |-> FALSE, chars |-> <<>>]
  /\ completion' = [outcome |-> "none", choices |-> <<>>]
  /\ parsed' = <<>>
  /\ UNCHANGED <<parserVars, lineVars>>

\* GET /api/book-suggestions up to the await (lines 73-96)
SuggestRequest ==
  /\ pc = "idle"
  /\ \E q \in Queries :
       /\ query' = q
       /\ IF ShortQuery(q)
            THEN /\ res' = [NoResponse EXCEPT !.status = 200, !.keys = {"list"}]
                 /\ pc' = "done" /\ calls' = 0
            ELSE /\ res' = NoResponse
                 /\ pc' = "awaiting" /\ calls' = IssueCall(0)
  /\ route' = "suggest"
  /\ books' = [type |-> "undefined", items |-> <<>>]
  /\ completion' = [outcome |-> "none", choices |-> <<>>]
  /\ parsed' = <<>>
  /\ UNCHANGED <<parserVars, lineVars>>

\* the awaited call rejects: the catch block of the route
CompletionRejected ==
  /\ pc = "awaiting"
  /\ completion' = [outcome |-> "rejected", choices |-> <<>>]
  /\ res' = ErrorResponse(500, IF route = "recommend"
                                 THEN "Failed to get book recommendations. Please try again."
                                 ELSE "Failed to fetch book suggestions")
  /\ pc' = "done"
  /\ UNCHANGED <<route, books, query, calls, parsed>>
  /\ UNCHANGED <<parserVars, lineVars>>

\* the awaited call resolves: lines 164-198
RecommendResolved ==
  /\ pc = "awaiting" /\ route = "recommend"
  /\ \E ch \in ChoicesOf(RecommendTexts) :
       /\ completion' = [outcome |-> "resolved", choices |-> ch]
       /\ IF Len(ch) = 0
            THEN /\ res' = ErrorResponse(500, "Failed to get book recommendations. Please try again.")
                 /\ parsed' = <<>>
            ELSE LET recommendationsText == IF ch[1].null THEN <<>> ELSE ch[1].text
                     recs == parseStep(recommendationsText)
                 IN /\ parsed' = recs
                    /\ res' = [NoResponse EXCEPT !.status = 200,
                                 !.keys = {"inputBooks", "recommendations"},
                                 !.inputBooks = books.items,
                                 !.recommendations = slice(recs, MaxRecommendations)]
  /\ pc' = "done"
  /\ UNCHANGED <<route, books, query, calls>>
  /\ UNCHANGED <<parserVars, lineVars>>

\* content?.split('\n').filter(book => book.trim().length > 0)   (lines 98-100)
SuggestionLines(content) ==
  IF content.null THEN Absent ELSE SelectSeq(split(content.text), LAMBDA ln : Len(trim(ln)) > 0)

\* the awaited call resolves: lines 98-107
SuggestResolved ==
  /\ pc = "awaiting" /\ route = "suggest"
  /\ \E ch \in ChoicesOf(SuggestTexts) :
       /\ completion' = [outcome |-> "resolved", choices |-> ch]
       /\ IF Len(ch) = 0
            THEN res' = ErrorResponse(500, "Failed to fetch book suggestions")
            ELSE LET kept == SuggestionLines(ch[1])
                     suggestions == IF kept = Absent THEN <<>> ELSE slice(kept, MaxSuggestions)
                 IN res' = [NoResponse EXCEPT !.status = 200, !.keys = {"list"}, !.list = suggestions]
  /\ pc' = "done"
  /\ UNCHANGED <<route, books, query, calls, parsed>>
  /\ UNCHANGED <<parserVars, lineVars>>

\* the answer is sent; the handler keeps nothing for the next request
Close ==
  /\ pc = "done"
  /\ pc' = "idle" /\ route' = "none" /\ books' = [type |-> "undefined", items |-> <<>>]
  /\ query' = [defined |-> FALSE, chars |-> <<>>] /\ calls' = 0
  /\ completion' = [outcome |-> "none", choices |-> <<>>]
  /\ parsed' = <<>> /\ res' = NoResponse
  /\ UNCHANGED <<parserVars, lineVars>>


(* ---------------------- properties of the routes --------------------- *)
Answered == pc = "done"
RawText ==
  IF Len(completion.choices) = 0 \/ completion.choices[1].null
    THEN <<>> ELSE completion.choices[1].text
Parsed200 ==
  /\ Answered /\ route = "recommend"
  /\ completion.outcome = "resolved" /\ Len(completion.choices) > 0

\* C1: the recommendations of a successful answer are the first min(N, 5)
\* elements of the list the parse step produced, in order; never more than 5.
C1_FirstFive ==
  (Answered /\ route = "recommend" /\ res.status = 200) =>
    /\ Len(res.recommendations) <= 5
    /\ Len(res.recommendations) = IF Len(parsed) < 5 THEN Len(parsed) ELSE 5
    /\ \A i \in 1..Len(res.recommendations) : res.recommendations[i] = parsed[i]
C1_Witness ==
  /\ Answered /\ route = "recommend" /\ res.status = 200
  /\ ~JSONparse(RawText).ok
  /\ Len(parsed) > 5 /\ Len(res.recommendations) = 5

\* C2: the recommendation route answers 400 with only an error object exactly
\* when books is missing, not an array, empty or longer than 10, and it does
\* so before any call of the completion service; 1..10 books are not rejected.
InvalidBooks == books.type # "array" \/ Len(books.items) = 0 \/ Len(books.items) > 10
C2_Validation ==
  (route = "recommend" /\ pc # "idle") =>
    /\ InvalidBooks <=> res.status = 400
    /\ res.status = 400 =>
         /\ Answered /\ res.keys = {"error"} /\ res.recommendations = <<>>
         /\ calls = 0 /\ completion.outcome = "none"
C2_Witness ==
  /\ route = "recommend" /\ Answered /\ res.status = 400
  /\ books.type = "array" /\ Len(books.items) = 11 /\ calls = 0

\* C4 as stated: every answered request has made exactly one call.
C4_Original == Answered => calls = 1
\* C4 amended: a request makes at most one call of the completion service:
\* exactly one when it passes validation (1..10 books, a query of at least 2
\* characters), none when it is rejected or short-circuited; a failed call
\* is not retried.
PassesValidation ==
  \/ route = "recommend" /\ ~InvalidBooks
  \/ route = "suggest" /\ query.defined /\ Len(query.chars) >= 2
C4_Amended ==
  /\ calls \in {0, 1}
  /\ pc \in {"awaiting", "done"} => (calls = 1 <=> PassesValidation)
  /\ completion.outcome = "rejected" => calls = 1
C4_Witness ==
  /\ Answered /\ completion.outcome = "rejected" /\ calls = 1 /\ res.status = 500

\* C5: a suggestion query of fewer than 2 characters (a missing q included)
\* is answered with the empty list and no call of the completion service.
C5_ShortQuery ==
  (route = "suggest" /\ pc # "idle" /\ (~query.defined \/ Len(query.chars) < 2)) =>
    /\ Answered /\ res.status = 200 /\ res.keys = {"list"} /\ res.list = <<>>
    /\ calls = 0 /\ completion.outcome = "none"
C5_Witness ==
  /\ route = "suggest" /\ Answered /\ query.defined /\ Len(query.chars) = 1
  /\ res.list = <<>> /\ calls = 0

\* C6 as stated: the suggestion list is the first at most 8 non-blank lines
\* of the completion text in order, each entry non-empty and trimmed.
C6_Original ==
  (route = "suggest" /\ Answered /\ completion.outcome = "resolved"
     /\ Len(completion.choices) > 0 /\ ~completion.choices[1].null) =>
    LET lns == split(RawText)
        at == {i \in 1..Len(lns) : \E j \in 1..Len(lns[i]) : lns[i][j] # SP}
        nth(k) == CHOOSE i \in at : Cardinality({j \in at : j < i}) = k - 1
    IN /\ Len(res.list) = IF Cardinality(at) < 8 THEN Cardinality(at) ELSE 8
       /\ \A k \in 1..Len(res.list) :
            /\ res.list[k] = lns[nth(k)]
            /\ Len(res.list[k]) > 0
            /\ res.list[k][1] # SP /\ res.list[k][Len(res.list[k])] # SP

\* C7: an answer is either a full result or an error object, never both; a
\* rejected call or a payload without choices gives the 500 answer with the
\* route's fixed message and nothing else; a failed JSON decode alone does
\* not give an error answer.
GenericMessage ==
  IF route = "recommend" THEN "Failed to get book recommendations. Please try again."
  ELSE "Failed to fetch book suggestions"
C7_Outcomes ==
  Answered =>
    /\ \/ res.keys = {"error"} /\ res.status \in {400, 500} /\ res.error # ""
          /\ res.recommendations = <<>> /\ res.inputBooks = <<>> /\ res.list = <<>>
       \/ res.keys = {"inputBooks", "recommendations"} /\ res.status = 200
          /\ res.error = "" /\ route = "recommend" /\ res.inputBooks = books.items
       \/ res.keys = {"list"} /\ res.status = 200 /\ res.error = "" /\ route = "suggest"
    /\ (completion.outcome = "rejected"
          \/ (completion.outcome = "resolved" /\ Len(completion.choices) = 0)) =>
         res.status = 500 /\ res.keys = {"error"} /\ res.error = GenericMessage
    /\ (Parsed200 /\ ~JSONparse(RawText).ok) => res.status = 200
C7_Witness ==
  /\ Answered /\ route = "recommend"
  /\ completion.outcome = "resolved" /\ Len(completion.choices) = 0
  /\ res.status = 500

\* C8: the parse step returns the decoded recommendations sequence when the
\* text decodes to an object with such a field, else the decoded value when
\* it is a sequence, and otherwise (decode threw, null, scalar, object without
\* a recommendations sequence) the heuristic parse of the raw text.
C8_ParseStep ==
  Parsed200 =>
    LET d == JSONparse(RawText)
        hasRecs == d.ok /\ d.kind = "object" /\ d.key = "\"recommendations\":"
                     /\ d.member.kind = "array"
        isSeq == d.ok /\ d.kind = "array"
    IN /\ hasRecs => parsed = d.member.items
       /\ (~hasRecs /\ isSeq) => parsed = d.items
       /\ (~hasRecs /\ ~isSeq) => parsed = parseTextRecommendations(RawText)
C8_Witness ==
  /\ Parsed200
  /\ JSONparse(RawText).ok /\ JSONparse(RawText).kind = "object"
  /\ JSONparse(RawText).member.kind = "number"
  /\ Len(parsed) = 1 /\ parsed[1].title # <<>>

(* ------------- specification of one run of the line parser ----------- *)
\* the shapes of line the parser is fed; "W" stands for the word of the line
LineShapes ==
  { <<"1", ".", SP, "W">>, <<"Title:", SP, "W">>, <<"1", ".">>, <<"title:">>,
    <<"title:", "W", SP, "author:", "W">>,
    <<"Author:", SP, "W">>, <<"reason:", "W">>, <<"genre:", "W">>,
    <<"W">>, <<SP>> }

\* before the loop (lines 204-207); no request and no single line in hand
ParserInit ==
  /\ ppc = "loop" /\ text = <<>> /\ currentBook = EmptyBook
  /\ recommendations = <<>> /\ result = <<>>
  /\ pc = "idle" /\ route = "none" /\ books = [type |-> "undefined", items |-> <<>>]
  /\ query = [defined |-> FALSE, chars |-> <<>>] /\ calls = 0
  /\ completion = [outcome |-> "none", choices |-> <<>>]
  /\ parsed = <<>> /\ res = NoResponse
  /\ lpc = "idle" /\ line = <<>> /\ out = EmptyBook

\* the next line of the input: dropped by the filter when blank, else one loop iteration
ReadLine ==
  /\ ppc = "loop"
  /\ Len(text) < MaxLines
  /\ \E shape \in LineShapes :
       LET ln == Instantiate(shape, Len(text) + 1)
           now == [book |-> currentBook, recs |-> recommendations]
           next == IF trim(ln) = <<>> THEN now ELSE ParseLine(now, ln)
       IN /\ text' = Append(text, ln)
          /\ currentBook' = next.book
          /\ recommendations' = next.recs
  /\ UNCHANGED <<ppc, result>>
  /\ UNCHANGED <<httpVars, lineVars>>

\* end of the loop: the final push and the return
EndOfInput ==
  /\ ppc = "loop"
  /\ ppc' = "returned"
  /\ result' = FinalPush([book |-> currentBook, recs |-> recommendations])
  /\ UNCHANGED <<text, currentBook, recommendations>>
  /\ UNCHANGED <<httpVars, lineVars>>

ParserNext == ReadLine \/ EndOfInput
SpecParser == ParserInit /\ [][ParserNext]_vars

(* ----------------------- properties of the parser --------------------- *)
Range(s) == {s[i] : i \in 1..Len(s)}
NonBlank(i) == trim(text[i]) # <<>>
TitleStartAt == {i \in 1..Len(text) : NonBlank(i) /\ IsTitleStart(text[i])}
TitledAt == {i \in TitleStartAt : trim(replaceTitle(text[i])) # <<>>}
NthTitled(k) == CHOOSE i \in TitledAt : Cardinality({j \in TitledAt : j < i}) = k - 1
\* the first title-start line after line i, or the end of the input
NextStart(i) == MinOf({j \in TitleStartAt : j > i} \cup {Len(text) + 1})
\* the line at which the record of the k-th titled line was opened (0: start of input)
OpenedAt(k) == IF k = 1 THEN 0 ELSE NextStart(NthTitled(k - 1))
FieldOf(ln) ==
  IF IsTitleStart(ln) THEN "title"
  ELSE IF includes(ln, {"author:"}) THEN "author"
  ELSE IF includes(ln, {"reason:", "why:"}) THEN "reason"
  ELSE IF includes(ln, {"genre:"}) THEN "genre"
  ELSE "none"
FieldText(ln) ==
  CASE FieldOf(ln) = "author" -> trim(replaceLabel(ln, {"author:"}, FALSE))
    [] FieldOf(ln) = "reason" -> trim(replaceLabel(ln, {"reason:", "why:"}, FALSE))
    [] FieldOf(ln) = "genre" -> trim(replaceLabel(ln, {"genre:"}, FALSE))
    [] OTHER -> <<>>
\* the value of field f left by the lines strictly between lo and hi
LastIn(f, lo, hi) ==
  LET at == {j \in (lo + 1)..(hi - 1) : NonBlank(j) /\ FieldOf(text[j]) = f}
  IN IF at = {} THEN Absent ELSE FieldText(text[MaxOf(at)])
\* one record per title-start line with a non-empty title, in input order
OnePerTitledLine ==
  /\ Len(result) = Cardinality(TitledAt)
  /\ \A k \in 1..Len(result) : result[k].title = trim(replaceTitle(text[NthTitled(k)]))
FieldsFrom(k, lo) ==
  LET hi == NextStart(NthTitled(k))
  IN /\ result[k].author = LastIn("author", lo, hi)
     /\ result[k].reason = LastIn("reason", lo, hi)
     /\ result[k].genre = LastIn("genre", lo, hi)

\* C3: every record the heuristic parser has pushed or returns has a
\* non-empty title, whatever the lines were (bare markers and labels included).
C3_NonEmptyTitles ==
  \A r \in Range(recommendations) \cup Range(result) : r.title # Absent /\ r.title # <<>>
C3_Witness ==
  /\ ppc = "returned" /\ Len(result) >= 1
  /\ \E i \in TitleStartAt \ TitledAt : i < Len(text)

\* C9 as stated: one record per titled line, and each record's fields come
\* only from the lines between its own title line and the next title-start line.
C9_Original ==
  ppc = "returned" =>
    /\ OnePerTitledLine
    /\ \A k \in 1..Len(result) : FieldsFrom(k, NthTitled(k))
\* C9 amended: one record per titled line in input order, and each record's
\* fields are the last values seen since the record was opened (the start of
\* the input or the title-start line that flushed the previous record) and
\* before the next title-start line after its title line.
C9_Amended ==
  ppc = "returned" =>
    /\ OnePerTitledLine
    /\ \A k \in 1..Len(result) : FieldsFrom(k, OpenedAt(k))
C9_Witness ==
  /\ ppc = "returned" /\ Len(result) = 2
  /\ LastIn("author", OpenedAt(2), NthTitled(2)) # Absent
  /\ result[2].author = LastIn("author", OpenedAt(2), NthTitled(2))

(* ------------- specification of one pass of the loop body ------------- *)
Alphabet == {"1", ".", SP, "-", "w", "title:", "Title:", "author:", "reason:", "why:", "genre:"}
NonBlankLinesUpTo(n) ==
  UNION { {l \in [1..m -> Alphabet] : trim(l) # <<>>} : m \in 1..n }

\* one non-blank line about to enter the loop body with a fresh record
LineInit ==
  /\ lpc = "read" /\ line \in NonBlankLinesUpTo(MaxLineLen) /\ out = EmptyBook
  /\ pc = "idle" /\ route = "none" /\ books = [type |-> "undefined", items |-> <<>>]
  /\ query = [defined |-> FALSE, chars |-> <<>>] /\ calls = 0
  /\ completion = [outcome |-> "none", choices |-> <<>>]
  /\ parsed = <<>> /\ res = NoResponse
  /\ ppc = "idle" /\ text = <<>> /\ currentBook = EmptyBook
  /\ recommendations = <<>> /\ result = <<>>

\* the loop body on a fresh record
LoopBody ==
  /\ lpc = "read"
  /\ out' = ParseLine([book |-> EmptyBook, recs |-> <<>>], line).book
  /\ lpc' = "stored"
  /\ UNCHANGED line
  /\ UNCHANGED <<httpVars, parserVars>>

LineNext == LoopBody
SpecLine == LineInit /\ [][LineNext]_vars

\* the text after the first occurrence of one of the labels, trimmed
AfterLabel(ln, labels) ==
  LET at == {i \in 1..Len(ln) : toLowerCase(ln[i]) \in labels}
  IN trim(SubSeq(ln, MinOf(at) + 1, Len(ln)))
\* the line without its leading numeric marker and without its title: label
WithoutMarkerAndLabel(ln) ==
  LET rest == trim(SubSeq(ln, MarkerLen(ln) + 1, Len(ln)))
      at == {i \in 1..Len(rest) : toLowerCase(rest[i]) = "title:"}
  IN IF at = {} THEN rest
     ELSE trim(SubSeq(rest, 1, MinOf(at) - 1) \o SubSeq(rest, MinOf(at) + 1, Len(rest)))

\* C10 as stated: the value stored for a classified line is the labelled text
\* only: the title without marker and label, the field without its label and
\* without what precedes the label.
C10_Original ==
  lpc = "stored" =>
    /\ FieldOf(line) = "title" => out.title = WithoutMarkerAndLabel(line)
    /\ FieldOf(line) = "author" => out.author = AfterLabel(line, {"author:"})
    /\ FieldOf(line) = "reason" => out.reason = AfterLabel(line, {"reason:", "why:"})
    /\ FieldOf(line) = "genre" => out.genre = AfterLabel(line, {"genre:"})

(* ------------------- specification of the two routes ------------------ *)
Next ==
  \/ RecommendRequest \/ SuggestRequest
  \/ CompletionRejected \/ RecommendResolved \/ SuggestResolved
  \/ Close
\* the server is up and no request is in hand (lines 11-22)
Init ==
  /\ pc = "idle" /\ route = "none" /\ books = [type |-> "undefined", items |-> <<>>]
  /\ query = [defined |-> FALSE, chars |-> <<>>] /\ calls = 0
  /\ completion = [outcome |-> "none", choices |-> <<>>]
  /\ parsed = <<>> /\ res = NoResponse
  /\ ppc = "idle" /\ text = <<>> /\ currentBook = EmptyBook
  /\ recommendations = <<>> /\ result = <<>>
  /\ lpc = "idle" /\ line = <<>> /\ out = EmptyBook
Spec == Init /\ [][Next]_vars
====
